---- MODULE Spec2Model ----
(***************************************************************************)
(* jdw-osc-lib: typed argument accessors, tagged bundles, timed packets    *)
(* (src/src/model.rs, src/src/lib.rs) and the dispatch stack with its      *)
(* receive loop (src/src/osc_stack.rs).                                    *)
(*                                                                         *)
(* Spec       : the dispatch stack. Registration calls, begin(), and the   *)
(*              receive loop; interpret() runs as a call stack whose       *)
(*              frames are the active `for packet in contents` loops.      *)
(* FairSpec   : Spec with the running thread's progress inside interpret.  *)
(* DecodeSpec : the accessors and decoders applied to bounded inputs.      *)
(***************************************************************************)
EXTENDS Integers, Sequences, FiniteSets, TLC

VARIABLES
    message_operations,   \* OSCStack.message_operations : address -> handler
    tbundle_operations,   \* OSCStack.tbundle_operations : tag -> handler
    tbundle_funnels,      \* OSCStack.tbundle_funnels    : set of tags
    pc,                   \* "configuring" | "recv" | "interpret" | "iterated" | "terminated"
    regs,                 \* number of registration calls made so far
    last_on_message,      \* history: handler of the latest on_message call per address
    stack,                \* active funnel loops of interpret(), innermost last
    cur,                  \* the packet decoded from the datagram being processed
    calls,                \* handler invocations made for cur, in order
    interpreted,          \* packets interpret() was entered with for cur, in order
    maxdepth,             \* deepest nesting of active funnel loops seen for cur
    event,                \* outcome of the latest turn of the receive loop
    op,                   \* DecodeSpec: the operation applied
    input,                \* DecodeSpec: the value it was applied to
    param,                \* DecodeSpec: its index / expected-value parameter
    result                \* DecodeSpec: what it returned

vars == <<message_operations, tbundle_operations, tbundle_funnels, pc, regs,
          last_on_message, stack, cur, calls, interpreted, maxdepth, event,
          op, input, param, result>>

tables == <<message_operations, tbundle_operations, tbundle_funnels>>
dispatchVars == <<message_operations, tbundle_operations, tbundle_funnels, pc, regs,
                  last_on_message, stack, cur, calls, interpreted, maxdepth, event>>
decodeVars == <<op, input, param, result>>

(***************************************************************************)
(* Bounds                                                                  *)
(***************************************************************************)
MaxRegs == 2      \* registration calls before begin()
MaxNest == 2      \* nesting depth of bundles in a received packet
MaxPayload == 2   \* packets after the first element of a bundle
MaxArgs == 3      \* arguments of a message given to the accessors

(***************************************************************************)
(* Data: rosc's OscType, OscMessage, OscBundle, OscPacket                  *)
(***************************************************************************)
\* An f32 is represented by its value in tenths (25 is 2.5).
OscString(s) == [type |-> "String", s |-> s, n |-> 0]
OscFloat(n) == [type |-> "Float", s |-> "", n |-> n]
OscInt(n) == [type |-> "Int", s |-> "", n |-> n]

Message(addr, args) == [kind |-> "Message", addr |-> addr, args |-> args]
Bundle(content) == [kind |-> "Bundle", content |-> content]
NoPacket == [kind |-> "None"]

Ok(v) == [kind |-> "Ok", val |-> v]
\* An Err carries the message text; names and pos are the values that
\* format! interpolates into it (strings, and an argument or content index).
Err(msg, names, pos) == [kind |-> "Err", msg |-> msg, names |-> names, pos |-> pos]
Panic(msg) == [kind |-> "Panic", msg |-> msg]

BSeq(S, n) == UNION {[1..k -> S] : k \in 0..n}
Max(a, b) == IF a >= b THEN a ELSE b
Rest(s) == SubSeq(s, 2, Len(s))

(***************************************************************************)
(* Inputs of the dispatch stack                                            *)
(***************************************************************************)
Addrs == {"/s_new", "/s_other"}
Tags == {"queue", "foo"}
MsgHandlers == {"h1", "h2"}
BundleHandlers == {"g1"}
Unregistered == "none"

Msgs == {Message(a, <<>>) : a \in Addrs}

\* What a bundle may start with: a well-formed info message for each tag,
\* an info message without arguments, one with a Float argument, a message
\* with another address (and a tag-like argument), and a bundle.
Firsts ==
    {Message("/bundle_info", <<OscString(t)>>) : t \in Tags}
      \cup {Message("/bundle_info", <<>>), Message("/bundle_info", <<OscFloat(25)>>),
            Message("/s_new", <<OscString("queue")>>), Bundle(<<>>)}

\* A bundle of one level: what it starts with, then up to w messages.
Flat(w) ==
    {Bundle(<<>>)} \cup {Bundle(<<f>> \o s) : f \in Firsts, s \in BSeq(Msgs, w)}

\* Where a bundle c stands in the payload of the bundle around it: alone,
\* after a message, or before one.
Around(c, w) ==
    {<<c>>} \cup (IF w >= 2
                  THEN {<<Message("/s_new", <<>>), c>>, <<c, Message("/s_other", <<>>)>>}
                  ELSE {})

\* Bundles nested exactly d deep: the innermost holds one message, each
\* bundle around it is tagged.
RECURSIVE Nested(_, _)
Nested(d, w) ==
    IF d = 1
    THEN {Bundle(<<>>)} \cup {Bundle(<<f, Message("/s_new", <<>>)>>) : f \in Firsts}
    ELSE {Bundle(<<Message("/bundle_info", <<OscString(t)>>)>> \o s) :
            t \in Tags, s \in UNION {Around(c, w) : c \in Nested(d - 1, w)}}

Bundles(d, w) == Flat(w) \cup UNION {Nested(k, w) : k \in 2..d}

Packets == Msgs \cup Bundles(MaxNest, MaxPayload)

(***************************************************************************)
(* model.rs: OscArgHandler for OscMessage                                  *)
(***************************************************************************)
\* Option<T>: None is <<>>, Some(v) is <<v>>.
None == <<>>
Some(v) == <<v>>
\* Vec::get
get(v, index) == IF index < Len(v) THEN Some(v[index + 1]) ELSE None
\* OscType::string / float / int
string(t) == IF t.type = "String" THEN Some(t.s) ELSE None
float(t) == IF t.type = "Float" THEN Some(t.n) ELSE None
int(t) == IF t.type = "Int" THEN Some(t.n) ELSE None
\* for arg in args, from position i on, with the flag next_is_string
RECURSIVE validate_loop(_, _, _)
validate_loop(args, i, next_is_string) ==
    IF i > Len(args) THEN Ok(<<>>)
    ELSE IF args[i].type = "Float"
    THEN IF next_is_string
         THEN Err("Malformed message: Custom arg float where string expected", <<>>, <<>>)
         ELSE validate_loop(args, i + 1, TRUE)
    ELSE IF args[i].type = "String"
    THEN IF ~next_is_string
         THEN Err("Malformed message: Custom arg string where float expected", <<>>, <<>>)
         ELSE validate_loop(args, i + 1, FALSE)
    ELSE Err("Malformed message: Custom arg in message not of type string or float",
             <<>>, <<>>)

validate_args_no_flip(args) ==
    IF \E i \in 1..Len(args) : args[i].type # "String"
    THEN Err("Malformed message: Custom arg float where string expected", <<>>, <<>>)
    ELSE Ok(<<>>)

validate_args(args) == validate_loop(args, 1, TRUE)

expect_addr(self, addr_name) ==
    IF self.addr # addr_name
    THEN Err("Attempted to format {} as the wrong kind of message", <<addr_name>>, <<>>)
    ELSE Ok(<<>>)

expect_args(self, amount) ==
    IF Len(self.args) < amount
    THEN Err("Message did not contain the {} first required args.", <<>>, <<amount>>)
    ELSE Ok("Ok")

get_string_at(self, index, name) ==
    LET some == get(self.args, index)
        s == IF some = None THEN None ELSE string(some[1])
    IN  IF s = None THEN Err("{} string not found as {}th arg", <<name>>, <<index>>)
        ELSE Ok(s[1])

get_float_at_coerce(self, index, name) ==
    LET some == get(self.args, index)
        s == IF some = None THEN None
             ELSE IF some[1].type = "Int" THEN Some(some[1].n) ELSE float(some[1])
    IN  IF s = None THEN Err("{} float not found as {}th arg", <<name>>, <<index>>)
        ELSE Ok(s[1])

get_float_at(self, index, name) ==
    LET some == get(self.args, index)
        s == IF some = None THEN None ELSE float(some[1])
    IN  IF s = None THEN Err("{} float not found as {}th arg", <<name>>, <<index>>)
        ELSE Ok(s[1])

get_int_at(self, index, name) ==
    LET some == get(self.args, index)
        s == IF some = None THEN None ELSE int(some[1])
    IN  IF s = None THEN Err("{} float not found as {}th arg", <<name>>, <<index>>)
        ELSE Ok(s[1])

\* u64::try_from(i32)
u64_try_from(n) ==
    IF n < 0 THEN Err("out of range integral type conversion attempted", <<>>, <<>>)
    ELSE Ok(n)

get_u64_at(self, index, name) ==
    LET i == get_int_at(self, index, name)
    IN  IF i.kind = "Err" THEN i ELSE u64_try_from(i.val)

\* BigDecimal::from_str on the texts that occur in the inputs: a decimal is
\* its digits and its scale, any other text is a parse error.
BigDecimal_from_str(s) ==
    IF s = "2.5" THEN Ok([digits |-> 25, scale |-> 1])
    ELSE IF s = "10" THEN Ok([digits |-> 10, scale |-> 0])
    ELSE Err("Failed to parse BigDecimal", <<>>, <<>>)

get_bigdecimal_at(self, index, name) ==
    LET t == get_string_at(self, index, name)
    IN  IF t.kind = "Err" THEN t ELSE BigDecimal_from_str(t.val)

get_varargs(self, start_index) ==
    LET named_args == IF Len(self.args) > start_index
                      THEN SubSeq(self.args, start_index + 1, Len(self.args))
                      ELSE <<>>
        valid == validate_args(named_args)
    IN  IF valid.kind = "Err" THEN valid ELSE Ok(named_args)

(***************************************************************************)
(* model.rs: TaggedBundle                                                  *)
(***************************************************************************)
TaggedBundle(tag, contents) == [bundle_tag |-> tag, contents |-> contents]

new_any_address(bundle) ==
    IF Len(bundle.content) = 0 THEN Err("Empty bundle", <<>>, <<>>)
    ELSE LET first == bundle.content[1] IN
      IF first.kind # "Message"
      THEN Err("First element in bundle not an info message!", <<>>, <<>>)
      ELSE IF Len(first.args) = 0 THEN Err("bundle info empty", <<>>, <<>>)
      ELSE IF first.args[1].type # "String"
      THEN Err("bundle info should be a string", <<>>, <<>>)
      ELSE Ok(TaggedBundle(first.args[1].s, Rest(bundle.content)))

\* TaggedBundle::new
new(bundle) ==
    IF Len(bundle.content) = 0 THEN Err("Empty bundle", <<>>, <<>>)
    ELSE LET first_msg == bundle.content[1] IN
      IF first_msg.kind # "Message"
      THEN Err("First element in bundle not an info message!", <<>>, <<>>)
      ELSE IF first_msg.addr # "/bundle_info"
      THEN Err("Expected /bundle_info as first message in bundle, got: {}",
               <<first_msg.addr>>, <<>>)
      ELSE IF Len(first_msg.args) = 0 THEN Err("bundle info empty", <<>>, <<>>)
      ELSE IF first_msg.args[1].type # "String"
      THEN Err("bundle info should be a string", <<>>, <<>>)
      ELSE Ok(TaggedBundle(first_msg.args[1].s,
                           IF Len(bundle.content) > 1 THEN Rest(bundle.content) ELSE <<>>))

get_packet(self, content_index) ==
    LET pct == get(self.contents, content_index)
    IN  IF pct = None THEN Err("Failed to fetch packet", <<>>, <<>>) ELSE Ok(pct[1])

get_message(self, content_index) ==
    LET pct == get(self.contents, content_index)
    IN  IF pct = None
        THEN Err("Could not get packet on index {} for bundle {:?}",
                 <<self.bundle_tag>>, <<content_index>>)
        ELSE IF pct[1].kind = "Message" THEN Ok(pct[1])
        ELSE Err("Not a message", <<>>, <<>>)

get_bundle(self, content_index) ==
    LET pct == get(self.contents, content_index)
    IN  IF pct = None
        THEN Err("Could not get packet on index {} for bundle {:?}",
                 <<self.bundle_tag>>, <<content_index>>)
        ELSE IF pct[1].kind = "Bundle" THEN Ok(pct[1])
        ELSE Err("Not a bundle", <<>>, <<>>)

(***************************************************************************)
(* model.rs and lib.rs: TimedOSCPacket                                     *)
(***************************************************************************)
TimedOSCPacket(time, packet) == [time |-> time, packet |-> packet]

\* model.rs: the time is a String argument parsed as a BigDecimal, unwrapped.
from_bundle(bundle) ==
    IF bundle.bundle_tag # "timed_msg"
    THEN Err("Attempted to parse {} as timed_msg bundle", <<bundle.bundle_tag>>, <<>>)
    ELSE LET info_msg == get_message(bundle, 0) IN
      IF info_msg.kind = "Err" THEN info_msg
      ELSE LET packet == get_packet(bundle, 1) IN
      IF packet.kind = "Err" THEN packet
      ELSE LET addr == expect_addr(info_msg.val, "/timed_msg_info") IN
      IF addr.kind = "Err" THEN addr
      ELSE LET time_str == get_string_at(info_msg.val, 0, "time") IN
      IF time_str.kind = "Err" THEN time_str
      ELSE LET time == BigDecimal_from_str(time_str.val) IN
      IF time.kind = "Err" THEN Panic("called Result::unwrap() on an Err value")
      ELSE Ok(TimedOSCPacket(time.val, packet.val))

\* lib.rs: TaggedBundle::get_message
lib_get_message(self, content_index) ==
    LET pct == get(self.contents, content_index)
    IN  IF pct = None THEN Err("Invalid index", <<>>, <<>>)
        ELSE IF pct[1].kind = "Message" THEN Ok(pct[1])
        ELSE Err("Not a message", <<>>, <<>>)

\* lib.rs: the time is a Float argument, kept as f32.
lib_from_bundle(bundle) ==
    IF bundle.bundle_tag # "timed_msg"
    THEN Err("Attempted to parse {} as timed_msg bundle", <<bundle.bundle_tag>>, <<>>)
    ELSE LET info_msg == lib_get_message(bundle, 0) IN
      IF info_msg.kind = "Err" THEN info_msg
      ELSE LET packet == get_packet(bundle, 1) IN
      IF packet.kind = "Err" THEN packet
      ELSE LET addr == expect_addr(info_msg.val, "/timed_msg_info") IN
      IF addr.kind = "Err" THEN addr
      ELSE LET time == get_float_at(info_msg.val, 0, "time") IN
      IF time.kind = "Err" THEN time
      ELSE Ok(TimedOSCPacket(time.val, packet.val))

(***************************************************************************)
(* osc_stack.rs: OSCStack                                                  *)
(***************************************************************************)
insert_keep_first(m, k, v) ==
    [x \in DOMAIN m \cup {k} |-> IF x \in DOMAIN m THEN m[x] ELSE v]

\* HashMap::insert: the new value replaces any value the key had.
insert(m, k, v) ==
    [x \in DOMAIN m \cup {k} |-> IF x = k THEN v ELSE m[x]]

EmptyMap == [x \in {} |-> Unregistered]

NoParam == [n |-> 0, s |-> ""]
NoResult == [kind |-> "None"]

\* OSCStack::init
init ==
    /\ message_operations = EmptyMap
    /\ tbundle_operations = EmptyMap
    /\ tbundle_funnels = {}
    /\ pc = "configuring"
    /\ regs = 0
    /\ last_on_message = [a \in Addrs |-> Unregistered]
    /\ stack = <<>>
    /\ cur = NoPacket
    /\ calls = <<>>
    /\ interpreted = <<>>
    /\ maxdepth = 0
    /\ event = "none"

Init ==
    /\ init
    /\ op = "none"
    /\ input = NoPacket
    /\ param = NoParam
    /\ result = NoResult

loopVars == <<stack, cur, calls, interpreted, maxdepth, event>>

on_message(tag, operations) ==
    /\ pc = "configuring"
    /\ regs < MaxRegs
    /\ message_operations' = insert(message_operations, tag, operations)
    /\ last_on_message' = [last_on_message EXCEPT ![tag] = operations]
    /\ regs' = regs + 1
    /\ UNCHANGED <<tbundle_operations, tbundle_funnels, pc, loopVars, decodeVars>>

on_tbundle(tag, operations) ==
    /\ pc = "configuring"
    /\ regs < MaxRegs
    /\ tbundle_operations' = insert(tbundle_operations, tag, operations)
    /\ regs' = regs + 1
    /\ UNCHANGED <<message_operations, tbundle_funnels, pc, last_on_message,
                   loopVars, decodeVars>>

funnel_tbundle(tag) ==
    /\ pc = "configuring"
    /\ regs < MaxRegs
    /\ tbundle_funnels' = tbundle_funnels \cup {tag}
    /\ regs' = regs + 1
    /\ UNCHANGED <<message_operations, tbundle_operations, pc, last_on_message,
                   loopVars, decodeVars>>

\* The state interpret() works on: the funnel loops, the invocations made,
\* the packets entered, the deepest nesting.
Frame(contents) == [rest |-> contents]
Run == [stack |-> stack, calls |-> calls, interpreted |-> interpreted,
        maxdepth |-> maxdepth]
Invoke(h, arg) == [h |-> h, arg |-> arg]
Entered(r, packet) == [r EXCEPT !.interpreted = Append(@, packet)]
Called(r, h, arg) == [r EXCEPT !.calls = Append(@, Invoke(h, arg))]
Pushed(r, contents) ==
    [r EXCEPT !.stack = Append(@, Frame(contents)),
              !.maxdepth = Max(@, Len(r.stack) + 1)]

interpret_handler_first(r, packet) ==
    LET e == Entered(r, packet) IN
    IF packet.kind = "Message"
    THEN IF packet.addr \in DOMAIN message_operations
         THEN Called(e, message_operations[packet.addr], packet)
         ELSE e
    ELSE LET t == new(packet) IN
         IF t.kind = "Ok"
         THEN IF t.val.bundle_tag \in DOMAIN tbundle_operations
              THEN Called(e, tbundle_operations[t.val.bundle_tag], t.val)
              ELSE IF t.val.bundle_tag \in tbundle_funnels
              THEN Pushed(e, t.val.contents)
              ELSE e
         ELSE e

interpret_also_contents(r, packet) ==
    LET e == Entered(r, packet)
        inner(c) == {i \in 1..Len(c) : c[i].kind = "Message"
                                        /\ c[i].addr \in DOMAIN message_operations}
    IN
    IF packet.kind = "Message"
    THEN IF packet.addr \in DOMAIN message_operations
         THEN Called(e, message_operations[packet.addr], packet)
         ELSE e
    ELSE LET t == new(packet) IN
         IF t.kind = "Ok"
         THEN IF t.val.bundle_tag \in tbundle_funnels
              THEN Pushed(e, t.val.contents)
              ELSE LET f == IF t.val.bundle_tag \in DOMAIN tbundle_operations
                            THEN Called(e, tbundle_operations[t.val.bundle_tag], t.val)
                            ELSE e
                   IN  IF inner(t.val.contents) = {} THEN f
                       ELSE LET i == CHOOSE i \in inner(t.val.contents) : TRUE
                            IN  Called(f, message_operations[t.val.contents[i].addr],
                                       t.val.contents[i])
         ELSE e

interpret_descend(r, packet) ==
    LET e == Entered(r, packet) IN
    IF packet.kind = "Message"
    THEN IF packet.addr \in DOMAIN message_operations
         THEN Called(e, message_operations[packet.addr], packet)
         ELSE e
    ELSE LET t == new(packet) IN
         IF t.kind = "Ok"
         THEN IF t.val.bundle_tag \in tbundle_funnels
              THEN Pushed(e, t.val.contents)
              ELSE IF t.val.bundle_tag \in DOMAIN tbundle_operations
              THEN Pushed(Called(e, tbundle_operations[t.val.bundle_tag], t.val),
                          t.val.contents)
              ELSE Pushed(e, t.val.contents)
         ELSE e

\* OSCStack::interpret, up to the point where it either returns or stands
\* in the loop over a funneled bundle's contents (a new frame).
interpret(r, packet) ==
    LET e == Entered(r, packet) IN
    IF packet.kind = "Message"
    THEN IF packet.addr \in DOMAIN message_operations
         THEN Called(e, message_operations[packet.addr], packet)
         ELSE e
    ELSE LET tagged_bundle == new(packet) IN
         IF tagged_bundle.kind = "Ok"
         THEN IF tagged_bundle.val.bundle_tag \in tbundle_funnels
              THEN Pushed(e, tagged_bundle.val.contents)
              ELSE IF tagged_bundle.val.bundle_tag \in DOMAIN tbundle_operations
              THEN Called(e, tbundle_operations[tagged_bundle.val.bundle_tag],
                          tagged_bundle.val)
              ELSE e
         ELSE e   \* warn!("Failed to parse bundle as tagged")

Resume(r) ==
    /\ stack' = r.stack
    /\ calls' = r.calls
    /\ interpreted' = r.interpreted
    /\ maxdepth' = r.maxdepth
    /\ pc' = IF r.stack = <<>> THEN "iterated" ELSE "interpret"

\* begin(): the address parses and the socket binds; the loop starts.
begin ==
    /\ pc = "configuring"
    /\ pc' = "recv"
    /\ event' = "begin"
    /\ UNCHANGED <<tables, regs, last_on_message, stack, cur, calls, interpreted,
                   maxdepth, decodeVars>>

\* begin(): SocketAddrV4::from_str fails (panic!) or bind fails (unwrap).
begin_panic ==
    /\ pc = "configuring"
    /\ pc' = "terminated"
    /\ event' = "bind_panic"
    /\ UNCHANGED <<tables, regs, last_on_message, stack, cur, calls, interpreted,
                   maxdepth, decodeVars>>

recv_err_ends_loop ==
    /\ pc = "recv"
    /\ pc' = "terminated"
    /\ event' = "recv_err"
    /\ UNCHANGED <<tables, regs, last_on_message, stack, cur, calls, interpreted,
                   maxdepth, decodeVars>>

\* recv_from returns Err: warn; the loop body is over.
recv_err ==
    /\ pc = "recv"
    /\ pc' = "iterated"
    /\ event' = "recv_err"
    /\ UNCHANGED <<tables, regs, last_on_message, stack, cur, calls, interpreted,
                   maxdepth, decodeVars>>

\* recv_from returns Ok and decode_udp returns Err: unwrap panics.
decode_panic ==
    /\ pc = "recv"
    /\ pc' = "terminated"
    /\ event' = "decode_panic"
    /\ UNCHANGED <<tables, regs, last_on_message, stack, cur, calls, interpreted,
                   maxdepth, decodeVars>>

\* recv_from returns Ok, decode_udp returns packet, interpret(packet) is called.
recv_packet(packet) ==
    /\ pc = "recv"
    /\ cur' = packet
    /\ event' = "packet"
    /\ Resume(interpret([stack |-> <<>>, calls |-> <<>>, interpreted |-> <<>>,
                         maxdepth |-> 0], packet))
    /\ UNCHANGED <<tables, regs, last_on_message, decodeVars>>

\* One turn of `for packet in tagged_bundle.contents` in the innermost active
\* interpret(): the recursive call on the next packet, or the return when
\* the contents are exhausted.
for_packet_in_contents ==
    /\ pc = "interpret"
    /\ LET top == stack[Len(stack)]
           below == SubSeq(stack, 1, Len(stack) - 1)
       IN  IF top.rest = <<>>
           THEN Resume([Run EXCEPT !.stack = below])
           ELSE Resume(interpret([Run EXCEPT !.stack = Append(below, Frame(Tail(top.rest)))],
                                 Head(top.rest)))
    /\ UNCHANGED <<tables, regs, last_on_message, cur, event, decodeVars>>

\* `loop`: from the end of the body back to recv_from. The history kept for
\* the datagram just processed is cleared for the next one.
loop ==
    /\ pc = "iterated"
    /\ pc' = "recv"
    /\ cur' = NoPacket
    /\ calls' = <<>>
    /\ interpreted' = <<>>
    /\ maxdepth' = 0
    /\ UNCHANGED <<tables, regs, last_on_message, stack, event, decodeVars>>

Next ==
    \/ \E a \in Addrs, h \in MsgHandlers : on_message(a, h)
    \/ \E t \in Tags, h \in BundleHandlers : on_tbundle(t, h)
    \/ \E t \in Tags : funnel_tbundle(t)
    \/ begin
    \/ begin_panic
    \/ recv_err
    \/ decode_panic
    \/ \E p \in Packets : recv_packet(p)
    \/ for_packet_in_contents
    \/ loop

Spec == Init /\ [][Next]_vars

\* The thread that runs interpret() keeps running it.
FairSpec == Spec /\ WF_vars(for_packet_in_contents)

TypeOK ==
    /\ pc \in {"configuring", "recv", "interpret", "iterated", "terminated"}
    /\ regs \in 0..MaxRegs
    /\ DOMAIN message_operations \subseteq Addrs
    /\ DOMAIN tbundle_operations \subseteq Tags
    /\ tbundle_funnels \subseteq Tags

(***************************************************************************)
(* DecodeSpec: each accessor and decoder applied once to a bounded input   *)
(***************************************************************************)
ArgVals == {OscString("amp"), OscString("2.5"), OscFloat(25), OscInt(-1), OscInt(7)}
ArgAddrs == {"/timed_msg_info", "/s_new"}
DecodeMsgs == {Message(a, args) : a \in ArgAddrs, args \in BSeq(ArgVals, MaxArgs)}
Indices == 0..MaxArgs

TimedElems ==
    {Message("/timed_msg_info", <<v>>) :
        v \in {OscFloat(25), OscString("2.5"), OscString("amp"), OscInt(7)}}
      \cup {Message("/timed_msg_info", <<>>), Message("/s_new", <<OscFloat(25)>>),
            Bundle(<<>>)}
DecodeTagged ==
    {TaggedBundle(t, c) : t \in {"timed_msg", "foo"}, c \in BSeq(TimedElems, MaxPayload)}
DecodeBundles == Bundles(MaxNest, MaxPayload)

IsMessage(x) == "addr" \in DOMAIN x
IsRawBundle(x) == "content" \in DOMAIN x
IsTagged(x) == "bundle_tag" \in DOMAIN x

DecodeInit ==
    /\ init
    /\ op = "none"
    /\ input \in DecodeMsgs \cup DecodeBundles \cup DecodeTagged
    /\ param = NoParam
    /\ result = NoResult

Apply(name, n, str, r) ==
    /\ op = "none"
    /\ op' = name
    /\ param' = [n |-> n, s |-> str]
    /\ result' = r
    /\ UNCHANGED <<input, dispatchVars>>

call_expect_addr(a) ==
    IsMessage(input) /\ Apply("expect_addr", 0, a, expect_addr(input, a))
call_expect_args(n) ==
    IsMessage(input) /\ Apply("expect_args", n, "", expect_args(input, n))
call_get_string_at(i) ==
    IsMessage(input) /\ Apply("get_string_at", i, "time", get_string_at(input, i, "time"))
call_get_float_at(i) ==
    IsMessage(input) /\ Apply("get_float_at", i, "time", get_float_at(input, i, "time"))
call_get_int_at(i) ==
    IsMessage(input) /\ Apply("get_int_at", i, "time", get_int_at(input, i, "time"))
call_get_u64_at(i) ==
    IsMessage(input) /\ Apply("get_u64_at", i, "time", get_u64_at(input, i, "time"))
call_get_bigdecimal_at(i) ==
    IsMessage(input)
      /\ Apply("get_bigdecimal_at", i, "time", get_bigdecimal_at(input, i, "time"))
call_get_varargs(k) ==
    IsMessage(input) /\ Apply("get_varargs", k, "", get_varargs(input, k))
call_new ==
    IsRawBundle(input) /\ Apply("new", 0, "", new(input))
call_get_packet(i) ==
    IsTagged(input) /\ Apply("get_packet", i, "", get_packet(input, i))
call_get_message(i) ==
    IsTagged(input) /\ Apply("get_message", i, "", get_message(input, i))
call_get_bundle(i) ==
    IsTagged(input) /\ Apply("get_bundle", i, "", get_bundle(input, i))
call_from_bundle ==
    IsTagged(input) /\ Apply("from_bundle", 0, "", from_bundle(input))
call_lib_from_bundle ==
    IsTagged(input) /\ Apply("lib_from_bundle", 0, "", lib_from_bundle(input))

DecodeNext ==
    \/ \E a \in ArgAddrs : call_expect_addr(a)
    \/ \E n \in Indices : call_expect_args(n)
    \/ \E i \in Indices : call_get_string_at(i)
    \/ \E i \in Indices : call_get_float_at(i)
    \/ \E i \in Indices : call_get_int_at(i)
    \/ \E i \in Indices : call_get_u64_at(i)
    \/ \E i \in Indices : call_get_bigdecimal_at(i)
    \/ \E k \in Indices : call_get_varargs(k)
    \/ call_new
    \/ \E i \in 0..MaxPayload : call_get_packet(i)
    \/ \E i \in 0..MaxPayload : call_get_message(i)
    \/ \E i \in 0..MaxPayload : call_get_bundle(i)
    \/ call_from_bundle
    \/ call_lib_from_bundle

DecodeSpec == DecodeInit /\ [][DecodeNext]_vars

(***************************************************************************)
(* What the properties are stated with                                     *)
(***************************************************************************)
\* The turn of the receive loop that interpreted cur is over.
Done == pc = "iterated" /\ event = "packet"

\* A bundle that follows the tagged-bundle convention, its tag, its payload.
WellTagged(b) ==
    /\ Len(b.content) >= 1
    /\ b.content[1].kind = "Message"
    /\ b.content[1].addr = "/bundle_info"
    /\ Len(b.content[1].args) >= 1
    /\ b.content[1].args[1].type = "String"
TagOf(b) == b.content[1].args[1].s
PayloadOf(b) == [i \in 1..(Len(b.content) - 1) |-> b.content[i + 1]]
Funneled(p) == p.kind = "Bundle" /\ WellTagged(p) /\ TagOf(p) \in tbundle_funnels
Routed(p) == p.kind = "Bundle" /\ WellTagged(p) /\ TagOf(p) \notin tbundle_funnels

RECURSIVE Concat(_)
Concat(ss) == IF ss = <<>> THEN <<>> ELSE Head(ss) \o Concat(Tail(ss))

\* The handler invocations that interpreting p on its own gives rise to.
RECURSIVE ExpectedCalls(_)
ExpectedCalls(p) ==
    IF p.kind = "Message"
    THEN IF p.addr \in DOMAIN message_operations
         THEN <<Invoke(message_operations[p.addr], p)>>
         ELSE <<>>
    ELSE IF Funneled(p)
    THEN Concat([i \in 1..Len(PayloadOf(p)) |-> ExpectedCalls(PayloadOf(p)[i])])
    ELSE IF Routed(p) /\ TagOf(p) \in DOMAIN tbundle_operations
    THEN <<Invoke(tbundle_operations[TagOf(p)], TaggedBundle(TagOf(p), PayloadOf(p)))>>
    ELSE <<>>

\* The packets that interpreting p on its own passes to interpret, in order.
RECURSIVE ExpectedTrace(_)
ExpectedTrace(p) ==
    <<p>> \o (IF Funneled(p)
              THEN Concat([i \in 1..Len(PayloadOf(p)) |-> ExpectedTrace(PayloadOf(p)[i])])
              ELSE <<>>)

\* How deep funneled bundles are nested in p.
RECURSIVE FunnelNest(_)
FunnelNest(p) ==
    IF Funneled(p)
    THEN 1 + (LET ds == {FunnelNest(PayloadOf(p)[i]) : i \in 1..Len(PayloadOf(p))}
              IN  IF ds = {} THEN 0 ELSE CHOOSE d \in ds : \A e \in ds : e <= d)
    ELSE 0

IsBundleCall(c) == "bundle_tag" \in DOMAIN c.arg

(***************************************************************************)
(* Dispatch stack                                                          *)
(***************************************************************************)
\* C1: interpreting a Message invokes the handler given by the latest
\* on_message call for its address, exactly once and with that Message;
\* with no such call it invokes no handler of either kind.
C1_MessageDispatch ==
    (Done /\ cur.kind = "Message") =>
        /\ interpreted = <<cur>>
        /\ calls = IF last_on_message[cur.addr] # Unregistered
                   THEN <<Invoke(last_on_message[cur.addr], cur)>>
                   ELSE <<>>

\* A Message was dispatched to h2 after two on_message calls for its address.
C1_Witness ==
    /\ Done /\ cur.kind = "Message"
    /\ regs >= 2 /\ DOMAIN message_operations = {cur.addr}
    /\ tbundle_operations = EmptyMap /\ tbundle_funnels = {}
    /\ calls = <<Invoke("h2", cur)>>

\* C2: interpreting a bundle whose tag is funneled interprets each packet of
\* its contents on its own and in order, and no handler registered for a
\* funneled tag is ever invoked.
C2_Funnel ==
    /\ \A k \in 1..Len(calls) :
         IsBundleCall(calls[k]) => calls[k].arg.bundle_tag \notin tbundle_funnels
    /\ (Done /\ Funneled(cur)) =>
         LET c == PayloadOf(cur) IN
         /\ interpreted = <<cur>> \o Concat([i \in 1..Len(c) |-> ExpectedTrace(c[i])])
         /\ calls = Concat([i \in 1..Len(c) |-> ExpectedCalls(c[i])])

\* A funneled bundle with a handler registered for its tag and two packets
\* in its contents has been interpreted.
C2_Witness ==
    /\ Done /\ Funneled(cur)
    /\ TagOf(cur) \in DOMAIN tbundle_operations
    /\ Len(PayloadOf(cur)) >= 2
    /\ Len(interpreted) >= 3

\* C3: interpreting a tagged bundle whose tag is not funneled invokes the
\* handler registered for the tag once with the tagged bundle, or nothing
\* when there is none, and interprets none of its contents.
C3_Routed ==
    (Done /\ Routed(cur)) =>
        /\ interpreted = <<cur>>
        /\ maxdepth = 0
        /\ calls = IF TagOf(cur) \in DOMAIN tbundle_operations
                   THEN <<Invoke(tbundle_operations[TagOf(cur)],
                                 TaggedBundle(TagOf(cur), PayloadOf(cur)))>>
                   ELSE <<>>

\* A routed bundle was handed to its handler while a handler is registered
\* for the address of a message inside it.
C3_Witness ==
    /\ Done /\ Routed(cur)
    /\ Len(calls) = 1
    /\ \E i \in 1..Len(PayloadOf(cur)) :
         /\ PayloadOf(cur)[i].kind = "Message"
         /\ PayloadOf(cur)[i].addr \in DOMAIN message_operations

\* The bundles C4 lists as not decodable.
Malformed(b) ==
    \/ Len(b.content) = 0
    \/ /\ Len(b.content) >= 1
       /\ \/ b.content[1].kind = "Bundle"
          \/ /\ b.content[1].kind = "Message"
             /\ \/ b.content[1].addr # "/bundle_info"
                \/ Len(b.content[1].args) = 0
                \/ /\ Len(b.content[1].args) >= 1
                   /\ b.content[1].args[1].type # "String"

C9_ReceiveLoop ==
    /\ [](event = "recv_err" /\ pc # "configuring" =>
            pc \in {"iterated", "recv", "interpret"})
    /\ [](pc = "iterated" /\ event = "recv_err" => calls = <<>> /\ ENABLED loop)
    /\ [](pc = "recv" => ENABLED (\E p \in Packets : recv_packet(p)))
    /\ [](event = "decode_panic" => pc = "terminated" /\ calls = <<>>)
    /\ [](pc \in {"recv", "iterated", "terminated"} => stack = <<>>)
    /\ [](Done => calls = ExpectedCalls(cur) /\ interpreted = ExpectedTrace(cur))
    /\ [][pc = "terminated" => UNCHANGED vars]_vars
    /\ [][pc = "recv" /\ event' = "recv_err" => pc' = "iterated" /\ calls' = calls]_vars
    /\ [][cur' # cur /\ cur' # NoPacket => pc = "recv" /\ stack = <<>>]_vars

\* After a receive error the loop stands at recv_from again, with handlers
\* registered.
C9_Witness ==
    /\ pc = "recv"
    /\ event = "recv_err"
    /\ DOMAIN message_operations # {}

\* C10: interpret terminates, nests its funnel loops exactly as deep as
\* funneled bundles are nested in the packet, and leaves the message table,
\* the bundle-handler table and the funneled set as they were.
C10_Interpret ==
    /\ [](Len(stack) <= maxdepth /\ maxdepth <= FunnelNest(cur))
    /\ [](Done => maxdepth = FunnelNest(cur))
    /\ [][pc # "configuring" => tables' = tables]_vars
    /\ (pc = "interpret" ~> pc = "iterated")

\* A funneled bundle inside a funneled bundle has been interpreted.
C10_Witness ==
    /\ Done
    /\ maxdepth >= 2
    /\ Len(interpreted) >= 3

(***************************************************************************)
(* Accessors and decoders                                                  *)
(***************************************************************************)
\* C5: no accessor or decoder aborts: each ends in a success value or in a
\* failure returned to the caller.
C5_NoAbort == op # "none" => result.kind \in {"Ok", "Err"}

\* The slice args[k:], and the String, Float, String, ... shape.
ArgsFrom(args, k) == [i \in 1..(Len(args) - k) |-> args[k + i]]
Alternates(v) ==
    \A i \in 1..Len(v) : v[i].type = (IF i % 2 = 1 THEN "String" ELSE "Float")
FirstOffending(v) ==
    CHOOSE i \in 1..Len(v) :
        /\ v[i].type # (IF i % 2 = 1 THEN "String" ELSE "Float")
        /\ \A j \in 1..(i - 1) : v[j].type = (IF j % 2 = 1 THEN "String" ELSE "Float")
Violation(t) ==
    IF t = "Float" THEN "Malformed message: Custom arg float where string expected"
    ELSE IF t = "String" THEN "Malformed message: Custom arg string where float expected"
    ELSE "Malformed message: Custom arg in message not of type string or float"

\* C6 as stated: get_varargs(k) returns args[k:] iff it alternates String,
\* Float from a String on, and otherwise fails naming the position of the
\* first offending element.
C6_NamesPosition ==
    op = "get_varargs" =>
        LET v == ArgsFrom(input.args, param.n) IN
        IF Alternates(v) THEN result = Ok(v)
        ELSE /\ result.kind = "Err"
             /\ result.pos = <<param.n + FirstOffending(v) - 1>>

\* C6 amended: get_varargs(k) returns args[k:] iff it alternates String,
\* Float from a String on, and otherwise fails with the message for the
\* kind of the first offending element, which names no position.
C6_Varargs ==
    op = "get_varargs" =>
        LET v == ArgsFrom(input.args, param.n) IN
        IF Alternates(v) THEN result = Ok(v)
        ELSE /\ result.kind = "Err"
             /\ result.msg = Violation(v[FirstOffending(v)].type)
             /\ result.pos = <<>>

\* get_varargs failed on a String standing where a Float is expected after
\* an accepted String, Float pair.
C6_Witness ==
    /\ op = "get_varargs"
    /\ result.kind = "Err"
    /\ LET v == ArgsFrom(input.args, param.n) IN
       /\ Len(v) >= 3
       /\ FirstOffending(v) >= 3

\* C7: get_string_at, get_float_at and get_int_at return the stored value
\* iff argument i exists and is a String, a Float, an Int respectively, and
\* fail otherwise.
C7_NoCoercion ==
    LET Is(t) == param.n < Len(input.args) /\ input.args[param.n + 1].type = t
        stored == input.args[param.n + 1]
    IN  /\ op = "get_string_at" =>
             IF Is("String") THEN result = Ok(stored.s) ELSE result.kind = "Err"
        /\ op = "get_float_at" =>
             IF Is("Float") THEN result = Ok(stored.n) ELSE result.kind = "Err"
        /\ op = "get_int_at" =>
             IF Is("Int") THEN result = Ok(stored.n) ELSE result.kind = "Err"

\* get_float_at was refused an Int argument.
C7_Witness ==
    /\ op = "get_float_at"
    /\ param.n < Len(input.args)
    /\ input.args[param.n + 1].type = "Int"
    /\ result.kind = "Err"

\* C8: from_bundle on a timed_msg bundle whose contents[0] is a message
\* addressed /timed_msg_info carrying the Float time and whose contents[1]
\* exists gives that time and contents[1]; a wrong tag fails naming the tag,
\* another address of contents[0] fails as an address mismatch, an absent
\* contents[0] or contents[1] fails as missing content (where both apply,
\* the missing content is reported).
C8_FromBundle ==
    op = "from_bundle" =>
        LET c == input.contents
            timed == input.bundle_tag = "timed_msg"
        IN  /\ ~timed =>
                 result.kind = "Err" /\ result.names = <<input.bundle_tag>>
            /\ (/\ timed /\ Len(c) >= 2
                /\ c[1].kind = "Message" /\ c[1].addr = "/timed_msg_info"
                /\ Len(c[1].args) >= 1 /\ c[1].args[1].type = "Float") =>
                 /\ result.kind = "Ok"
                 /\ result.val.packet = c[2]
                 /\ result.val.time = c[1].args[1].n
            /\ (timed /\ Len(c) >= 2 /\ c[1].kind = "Message"
                  /\ c[1].addr # "/timed_msg_info") =>
                 /\ result.kind = "Err"
                 /\ result.msg = "Attempted to format {} as the wrong kind of message"
            /\ (timed /\ (Len(c) = 0 \/ (Len(c) = 1 /\ c[1].kind = "Message"))) =>
                 /\ result.kind = "Err"
                 /\ result.msg \in {"Failed to fetch packet",
                                    "Could not get packet on index {} for bundle {:?}"}
====
